---- MODULE Spec2Model ----
(***************************************************************************)
(* Learning Walk Assistant (src/App.tsx): the observation form, the saved  *)
(* collection, its mirror in the localStorage slot 'learningWalks', the    *)
(* CSV export and the feedback e-mail.                                     *)
(*                                                                         *)
(* Text.  A JavaScript string is modelled as a sequence of chunks.  Every  *)
(* character the code or its libraries treat specially (double quote,      *)
(* newline, comma, backslash, space, colon, the JSON punctuation) is a     *)
(* chunk of its own; every other chunk is a run of ordinary characters.    *)
(* The empty string is <<>>.                                               *)
(*                                                                         *)
(* Objects.  Every update in the source builds a new object (spread        *)
(* syntax, JSON.parse); nothing is assigned in place, so records are       *)
(* modelled by their values.                                               *)
(***************************************************************************)
EXTENDS Integers, Sequences, FiniteSets, TLC

VARIABLES
    observations,         \* useState<Observation[]>: [type |-> "array", items |-> ...] or another JS value
    formState,            \* useState<Observation>: the observation being edited
    selectedObservation,  \* useState<Observation | null>: <<>> is null, <<o>> is o
    storage,              \* localStorage slot 'learningWalks': [has, text]
    now,                  \* the wall clock, in milliseconds
    phase,                \* "loading" (not mounted yet), "running", "crashed" (a render threw)
    last                  \* the last handler run and what it showed the user

vars == <<observations, formState, selectedObservation, storage, now, phase, last>>

----------------------------------------------------------------------------
(* Bounds *)

MaxObs == 2
MaxClock == 1

----------------------------------------------------------------------------
(* Characters *)

DQ == "\""
NL == "\n"
CM == ","
BS == "\\"
SP == " "
COLON == ":"
\* the en dash, U+2013
DASH == "<U+2013>"

Digit == <<"0", "1", "2", "3", "4", "5", "6", "7", "8", "9">>

RECURSIVE Join(_, _)
\* Array.prototype.join: the texts of parts with sep between them
Join(parts, sep) ==
    IF Len(parts) = 0 THEN <<>>
    ELSE IF Len(parts) = 1 THEN parts[1]
    ELSE parts[1] \o sep \o Join(Tail(parts), sep)

RECURSIVE Count(_, _)
\* the number of occurrences of chunk c in text t
Count(t, c) ==
    IF Len(t) = 0 THEN 0
    ELSE (IF Head(t) = c THEN 1 ELSE 0) + Count(Tail(t), c)

----------------------------------------------------------------------------
(* constants.ts, types.ts *)

YEAR_GROUPS ==
    << <<"Year", SP, "7">>, <<"Year", SP, "8">>, <<"Year", SP, "9">>,
       <<"Year", SP, "10">>, <<"Year", SP, "11">> >>

STRATEGY_KEYS == <<"miniWhiteboards", "thinkPairShare", "dumtums", "coldCalling">>

STRATEGY_LABELS ==
    [miniWhiteboards |-> <<"Use", SP, "of", SP, "mini", SP, "whiteboards">>,
     thinkPairShare  |-> <<"Think-Pair-Share">>,
     dumtums         |-> <<"DUMTUMS">>,
     coldCalling     |-> <<"Cold", SP, "calling">>]

initialStrategies ==
    [miniWhiteboards |-> FALSE, thinkPairShare |-> FALSE,
     dumtums |-> FALSE, coldCalling |-> FALSE]

getInitialFormState ==
    [id |-> <<>>, dateTime |-> <<>>, yearGroup |-> <<>>, teacherName |-> <<>>,
     observationNotes |-> <<>>, strategies |-> initialStrategies]

\* the string-valued properties of an Observation, in property order
StringFields == <<"id", "dateTime", "yearGroup", "teacherName", "observationNotes">>

----------------------------------------------------------------------------
(* JSON values.  JSON.parse yields a tree of these nodes; JSON.stringify   *)
(* prints one.                                                             *)

Null == [type |-> "null"]
Bool(b) == [type |-> "boolean", b |-> b]
Num(n) == [type |-> "number", n |-> n]
Str(s) == [type |-> "string", s |-> s]
Arr(items) == [type |-> "array", items |-> items]
Obj(keys, vals) == [type |-> "object", keys |-> keys, vals |-> vals]

\* JSON.stringify's string escape
EscapeChunk(c) ==
    IF c = DQ THEN "\\\""
    ELSE IF c = BS THEN "\\\\"
    ELSE IF c = NL THEN "\\n"
    ELSE c

\* JSON.parse's string unescape
UnescapeChunk(c) ==
    IF c = "\\\"" THEN DQ
    ELSE IF c = "\\\\" THEN BS
    ELSE IF c = "\\n" THEN NL
    ELSE c

\* a string literal: the quoted, escaped text of s
JSONquote(s) == <<DQ>> \o [i \in 1..Len(s) |-> EscapeChunk(s[i])] \o <<DQ>>

RECURSIVE Stringify(_)
\* JSON.stringify of a JSON value
Stringify(a) ==
    CASE a.type = "null" -> <<"null">>
      [] a.type = "boolean" -> <<IF a.b THEN "true" ELSE "false">>
      [] a.type = "number" -> <<a.n>>
      [] a.type = "string" -> JSONquote(a.s)
      [] a.type = "array" ->
            <<"[">> \o Join([i \in 1..Len(a.items) |-> Stringify(a.items[i])], <<CM>>) \o <<"]">>
      [] a.type = "object" ->
            <<"{">>
            \o Join([i \in 1..Len(a.keys) |->
                        JSONquote(a.keys[i]) \o <<COLON>> \o Stringify(a.vals[i])], <<CM>>)
            \o <<"}">>

ParseOk(v, n) == [ok |-> TRUE, val |-> v, next |-> n]
ParseFail == [ok |-> FALSE, val |-> Null, next |-> 0]

RECURSIVE ScanString(_, _, _)
\* the rest of a string literal whose opening quote is before t[j]
ScanString(t, j, acc) ==
    IF j > Len(t) THEN ParseFail
    ELSE IF t[j] = DQ THEN ParseOk(Str(acc), j + 1)
    ELSE IF t[j] = NL \/ t[j] = BS THEN ParseFail
    ELSE ScanString(t, j + 1, Append(acc, UnescapeChunk(t[j])))

RECURSIVE ParseValue(_, _)
RECURSIVE ParseElements(_, _, _)
RECURSIVE ParseMembers(_, _, _, _)

\* a JSON value starting at t[i]
ParseValue(t, i) ==
    IF i > Len(t) THEN ParseFail
    ELSE IF t[i] = "null" THEN ParseOk(Null, i + 1)
    ELSE IF t[i] = "true" THEN ParseOk(Bool(TRUE), i + 1)
    ELSE IF t[i] = "false" THEN ParseOk(Bool(FALSE), i + 1)
    ELSE IF \E d \in 1..10 : t[i] = Digit[d] THEN ParseOk(Num(t[i]), i + 1)
    ELSE IF t[i] = DQ THEN ScanString(t, i + 1, <<>>)
    ELSE IF t[i] = "[" THEN
        IF i + 1 <= Len(t) /\ t[i + 1] = "]" THEN ParseOk(Arr(<<>>), i + 2)
        ELSE ParseElements(t, i + 1, <<>>)
    ELSE IF t[i] = "{" THEN
        IF i + 1 <= Len(t) /\ t[i + 1] = "}" THEN ParseOk(Obj(<<>>, <<>>), i + 2)
        ELSE ParseMembers(t, i + 1, <<>>, <<>>)
    ELSE ParseFail

\* the elements of an array, the first of them at t[i]
ParseElements(t, i, acc) ==
    LET v == ParseValue(t, i) IN
    IF ~v.ok \/ v.next > Len(t) THEN ParseFail
    ELSE IF t[v.next] = CM THEN ParseElements(t, v.next + 1, Append(acc, v.val))
    ELSE IF t[v.next] = "]" THEN ParseOk(Arr(Append(acc, v.val)), v.next + 1)
    ELSE ParseFail

\* the members of an object, the first of them at t[i]
ParseMembers(t, i, keys, vals) ==
    IF i > Len(t) \/ t[i] # DQ THEN ParseFail
    ELSE
        LET k == ScanString(t, i + 1, <<>>) IN
        IF ~k.ok \/ k.next > Len(t) \/ t[k.next] # COLON THEN ParseFail
        ELSE
            LET v == ParseValue(t, k.next + 1) IN
            IF ~v.ok \/ v.next > Len(t) THEN ParseFail
            ELSE IF t[v.next] = CM THEN
                ParseMembers(t, v.next + 1, Append(keys, k.val.s), Append(vals, v.val))
            ELSE IF t[v.next] = "}" THEN
                ParseOk(Obj(Append(keys, k.val.s), Append(vals, v.val)), v.next + 1)
            ELSE ParseFail

\* JSON.parse: ok is FALSE where it throws a SyntaxError
JSONparse(t) ==
    LET r == ParseValue(t, 1) IN
    IF r.ok /\ r.next = Len(t) + 1 THEN [ok |-> TRUE, val |-> r.val]
    ELSE [ok |-> FALSE, val |-> Null]

----------------------------------------------------------------------------
(* The in-memory collection.  observations holds whatever the last         *)
(* setObservations stored: [type |-> "array", items |-> <<Observation>>]   *)
(* for an array of observations, or the JSON value that JSON.parse gave    *)
(* (the code stores it unchecked); an array with an element that is not an *)
(* observation is kept as [type |-> "junkarray", items |-> <<JSON value>>].*)

EmptyCollection == [type |-> "array", items |-> <<>>]

StrategiesToJS(s) ==
    Obj([i \in 1..Len(STRATEGY_KEYS) |-> <<STRATEGY_KEYS[i]>>],
        [i \in 1..Len(STRATEGY_KEYS) |-> Bool(s[STRATEGY_KEYS[i]])])

\* the object JSON.stringify sees: the properties in the order the code creates them
ObservationToJS(o) ==
    Obj([i \in 1..Len(StringFields) |-> <<StringFields[i]>>] \o << <<"strategies">> >>,
        [i \in 1..Len(StringFields) |-> Str(o[StringFields[i]])]
            \o <<StrategiesToJS(o.strategies)>>)

ToJS(v) ==
    IF v.type = "array" THEN Arr([i \in 1..Len(v.items) |-> ObservationToJS(v.items[i])])
    ELSE IF v.type = "junkarray" THEN Arr(v.items)
    ELSE v

\* the members of object o named k (a repeated key keeps its last value)
PropIndex(o, k) == {i \in 1..Len(o.keys) : o.keys[i] = k}

Prop(o, k) == o.vals[CHOOSE i \in PropIndex(o, k) : \A j \in PropIndex(o, k) : j <= i]

HasProp(o, k, ty) == PropIndex(o, k) # {} /\ Prop(o, k).type = ty

IsObservationJS(o) ==
    /\ o.type = "object"
    /\ \A i \in 1..Len(StringFields) : HasProp(o, <<StringFields[i]>>, "string")
    /\ HasProp(o, <<"strategies">>, "object")
    /\ \A i \in 1..Len(STRATEGY_KEYS) :
          HasProp(Prop(o, <<"strategies">>), <<STRATEGY_KEYS[i]>>, "boolean")

ObservationFromJS(o) ==
    LET s == Prop(o, <<"strategies">>) IN
    [id               |-> Prop(o, <<"id">>).s,
     dateTime         |-> Prop(o, <<"dateTime">>).s,
     yearGroup        |-> Prop(o, <<"yearGroup">>).s,
     teacherName      |-> Prop(o, <<"teacherName">>).s,
     observationNotes |-> Prop(o, <<"observationNotes">>).s,
     strategies       |->
        [miniWhiteboards |-> Prop(s, <<"miniWhiteboards">>).b,
         thinkPairShare  |-> Prop(s, <<"thinkPairShare">>).b,
         dumtums         |-> Prop(s, <<"dumtums">>).b,
         coldCalling     |-> Prop(s, <<"coldCalling">>).b]]

FromJS(a) ==
    IF a.type # "array" THEN a
    ELSE IF \A i \in 1..Len(a.items) : IsObservationJS(a.items[i])
    THEN [type |-> "array", items |-> [i \in 1..Len(a.items) |-> ObservationFromJS(a.items[i])]]
    ELSE [type |-> "junkarray", items |-> a.items]

\* JSON.stringify(observations)
JSONstringify(v) == Stringify(ToJS(v))

----------------------------------------------------------------------------
(* Dates.  The datetime-local input gives "YYYY-MM-DDTHH:MM", here the     *)
(* chunks <<date, "T", hours, ":", minutes>>.                              *)

\* whether new Date(dt) is a valid date
IsDateTime(dt) == Len(dt) = 5 /\ dt[2] = "T" /\ dt[4] = COLON

InvalidDate == <<"Invalid", SP, "Date">>

\* new Date(dt).toLocaleDateString('en-CA')
toLocaleDateString(dt) == IF IsDateTime(dt) THEN <<dt[1]>> ELSE InvalidDate

\* new Date(dt).toLocaleTimeString([], {hour: '2-digit', minute: '2-digit'}) in the
\* user's locale: a 24-hour or a 12-hour clock (the model's times are before noon)
toLocaleTimeString(dt, hour12) ==
    IF ~IsDateTime(dt) THEN InvalidDate
    ELSE IF hour12 THEN <<dt[3], COLON, dt[5], SP, "AM">>
    ELSE <<dt[3], COLON, dt[5]>>

Pad2(n) == <<Digit[((n \div 10) % 10) + 1], Digit[(n % 10) + 1]>>

Pad3(n) == <<Digit[((n \div 100) % 10) + 1]>> \o Pad2(n)

\* new Date().toISOString() at ms milliseconds after 1970-01-01T00:00:00.000Z
toISOString(ms) ==
    <<"1970-01-01", "T">>
    \o Pad2((ms \div 3600000) % 24) \o <<COLON>> \o Pad2((ms \div 60000) % 60) \o <<COLON>>
    \o Pad2((ms \div 1000) % 60) \o <<".">> \o Pad3(ms % 1000) \o <<"Z">>

----------------------------------------------------------------------------
(* CSV export *)

headers ==
    << <<"Date">>, <<"Time">>, <<"Year", SP, "Group">>, <<"Teacher", SP, "Name">>,
       <<"Observation", SP, "Notes">> >>
    \o [i \in 1..Len(STRATEGY_KEYS) |-> STRATEGY_LABELS[STRATEGY_KEYS[i]]]

\* `"${notes.replace(/"/g, '""')}"`
sanitizedNotes(notes) ==
    <<DQ>>
    \o Join([i \in 1..Len(notes) |-> IF notes[i] = DQ THEN <<DQ, DQ>> ELSE <<notes[i]>>], <<>>)
    \o <<DQ>>

strategyValues(obs) ==
    [i \in 1..Len(STRATEGY_KEYS) |-> IF obs.strategies[STRATEGY_KEYS[i]] THEN <<"Y">> ELSE <<"N">>]

csvRow(obs, hour12) ==
    Join(<<toLocaleDateString(obs.dateTime), toLocaleTimeString(obs.dateTime, hour12),
           obs.yearGroup, obs.teacherName, sanitizedNotes(obs.observationNotes)>>
         \o strategyValues(obs), <<CM>>)

\* a csvString that ends every line, the last one too, with a newline
csvStringTrailingNewline(items, hour12) ==
    Join(<<Join(headers, <<CM>>)>> \o [i \in 1..Len(items) |-> csvRow(items[i], hour12)], <<NL>>)
    \o <<NL>>

\* csvString of handleExport for the array items
csvString(items, hour12) ==
    Join(<<Join(headers, <<CM>>)>> \o [i \in 1..Len(items) |-> csvRow(items[i], hour12)], <<NL>>)

\* `learning_walks_${new Date().toISOString().split('T')[0]}.csv`
downloadName(ms) == <<"learning_walks_", toISOString(ms)[1], ".csv">>

----------------------------------------------------------------------------
(* Feedback e-mail *)

EncodeChunk(c) ==
    CASE c = SP -> "%20"
      [] c = NL -> "%0A"
      [] c = CM -> "%2C"
      [] c = DQ -> "%22"
      [] c = COLON -> "%3A"
      [] c = BS -> "%5C"
      [] c = DASH -> "%E2%80%93"
      [] OTHER -> c

encodeURIComponent(t) == [i \in 1..Len(t) |-> EncodeChunk(t[i])]

RECURSIVE SelectKeys(_, _)
\* STRATEGY_KEYS.filter(key => strategies[key]), from position i on
SelectKeys(strategies, i) ==
    IF i > Len(STRATEGY_KEYS) THEN <<>>
    ELSE (IF strategies[STRATEGY_KEYS[i]] THEN <<STRATEGY_KEYS[i]>> ELSE <<>>)
         \o SelectKeys(strategies, i + 1)

strategiesList(strategies) ==
    LET keys == SelectKeys(strategies, 1) IN
    Join([i \in 1..Len(keys) |-> <<"-", SP>> \o STRATEGY_LABELS[keys[i]]], <<NL>>)

emailSubject(f) ==
    <<"Learning", SP, "Walk", SP, "Feedback", SP, DASH, SP>> \o f.teacherName
    \o <<SP, DASH, SP>> \o toLocaleDateString(f.dateTime)

emailBody(f) ==
    <<"Hi", SP>> \o f.teacherName \o <<CM, NL, NL>>
    \o <<"Here", SP, "is", SP, "some", SP, "feedback", SP, "from", SP, "a", SP, "recent", SP,
         "learning", SP, "walk.", NL, NL>>
    \o <<"Observation", SP, "Notes", COLON, NL>> \o f.observationNotes \o <<NL, NL>>
    \o <<"Teaching", SP, "Strategies", SP, "Observed", COLON, NL>>
    \o (IF strategiesList(f.strategies) = <<>> THEN <<"None", SP, "specified">>
        ELSE strategiesList(f.strategies))
    \o <<NL, NL, "Best", SP, "regards", CM>>

emailHref(f) ==
    <<"ms-outlook://compose?subject=">> \o encodeURIComponent(emailSubject(f))
    \o <<"&body=">> \o encodeURIComponent(emailBody(f))

----------------------------------------------------------------------------
(* What the user is shown by a handler: the alert, the console errors, the *)
(* file offered for download, the URI navigated to.                        *)

LoadFailed == "Failed to load observations from local storage"
SaveFailed == "Failed to save observations to local storage"
TypeError == "Uncaught TypeError"

Shown(op) == [op |-> op, alert |-> "", log |-> {}, download |-> <<>>, href |-> <<>>]

----------------------------------------------------------------------------
(* Inputs of the model *)

DateTimeInputs == { <<>>, <<"2024-03-01", "T", "09", COLON, "00">> }
TeacherNameInputs == { <<>>, <<"J.", SP, "Smith">> }
YearGroupInputs == { YEAR_GROUPS[2] }
NotesInputs == { <<>>, <<"He", SP, "said", CM, NL, DQ, "great", SP, "job", DQ>> }

InputValues(name) ==
    CASE name = "dateTime" -> DateTimeInputs
      [] name = "teacherName" -> TeacherNameInputs
      [] name = "yearGroup" -> YearGroupInputs
      [] name = "observationNotes" -> NotesInputs

Absent == [has |-> FALSE, text |-> <<>>]
Slot(text) == [has |-> TRUE, text |-> text]

\* what the slot may hold when the application is first opened
InitialSlots ==
    { Absent, Slot(<<>>), Slot(<<"oops">>), Slot(<<"[", "{">>), Slot(<<"null">>),
      Slot(<<"{", "}">>), Slot(<<"5">>), Slot(<<DQ, "abc", DQ>>), Slot(<<"[", "null", "]">>),
      Slot(<<"[", "]">>) }

----------------------------------------------------------------------------
(* The component *)

\* isSaveable without its yearGroup test (the test handleEmail makes)
isSaveableNoYearGroup(f) == Len(f.dateTime) > 0 /\ Len(f.teacherName) > 0

\* line 103 and isFormValid
isSaveable(f) == Len(f.dateTime) > 0 /\ Len(f.teacherName) > 0 /\ Len(f.yearGroup) > 0

\* observations.length === 0
LengthIsZero(v) ==
    \/ v.type \in {"array", "junkarray"} /\ Len(v.items) = 0
    \/ v.type = "string" /\ Len(v.s) = 0

\* whether rendering the saved list throws: observations.length of null, .map of a
\* non-empty string, obs.id of a null element
RenderThrows(v) ==
    \/ v.type = "null"
    \/ v.type = "string" /\ Len(v.s) > 0
    \/ v.type = "junkarray" /\ \E i \in 1..Len(v.items) : v.items[i].type = "null"

\* the load effect: what it passes to setObservations, and what it logs
LoadEffect(slot) ==
    IF ~slot.has \/ slot.text = <<>> THEN [set |-> FALSE, value |-> Null, log |-> {}]
    ELSE
        LET p == JSONparse(slot.text) IN
        IF p.ok THEN [set |-> TRUE, value |-> FromJS(p.val), log |-> {}]
        ELSE [set |-> FALSE, value |-> Null, log |-> {LoadFailed}]

\* a save effect that, when setItem throws, falls back to an empty collection
SaveEffectRollback(m, ok) ==
    IF ok THEN [m EXCEPT !.storage = Slot(JSONstringify(m.observations))]
    ELSE [m EXCEPT !.observations = EmptyCollection, !.log = @ \cup {SaveFailed}]

\* the save effect on m = [observations, storage, log]; setItem throws when ~ok
SaveEffect(m, ok) ==
    IF ok THEN [m EXCEPT !.storage = Slot(JSONstringify(m.observations))]
    ELSE [m EXCEPT !.log = @ \cup {SaveFailed}]

\* The page is opened: the component is constructed and mounted, its
\* effects run (twice over when strict: React's development double invocation of
\* effects), then the updates they queued are rendered.  Each step's result is
\* bound once: l1, m1 the first run of the two effects, l2, m2 the second, m3 the
\* state after the queued updates, m4 after the save effect of the re-render.
Start(strict, ok1, ok2, ok3) ==
    /\ phase = "loading"
    /\ \E l1 \in {LoadEffect(storage)} :
       \E m1 \in {SaveEffect([observations |-> EmptyCollection, storage |-> storage,
                              log |-> l1.log], ok1)} :
       \E l2 \in {LoadEffect(m1.storage)} :
       \E m2 \in {IF strict THEN SaveEffect([m1 EXCEPT !.log = @ \cup l2.log], ok2) ELSE m1} :
       \E updates \in {(IF l1.set THEN <<l1.value>> ELSE <<>>)
                       \o (IF strict /\ l2.set THEN <<l2.value>> ELSE <<>>)} :
       \E m3 \in {IF updates = <<>> THEN m2
                  ELSE [m2 EXCEPT !.observations = updates[Len(updates)]]} :
       \E thrown \in {RenderThrows(m3.observations)} :
       \E m4 \in {IF updates = <<>> \/ thrown THEN m3 ELSE SaveEffect(m3, ok3)} :
           /\ observations' = m4.observations
           /\ storage' = m4.storage
           /\ formState' = getInitialFormState
           /\ selectedObservation' = <<>>
           /\ phase' = IF thrown THEN "crashed" ELSE "running"
           /\ last' = [Shown("start") EXCEPT
                           !.log = m4.log \cup (IF thrown THEN {TypeError} ELSE {})]
           /\ UNCHANGED now

handleInputChange(name, value) ==
    /\ phase = "running"
    /\ formState' = [formState EXCEPT ![name] = value]
    /\ last' = Shown("input")
    /\ UNCHANGED <<observations, selectedObservation, storage, now, phase>>

\* a strategy change that assigns the flag in place, in a strategies object the
\* newest saved record shares with the form
handleStrategyChangeShared(name, checked) ==
    /\ phase = "running"
    /\ formState' = [formState EXCEPT !.strategies = [@ EXCEPT ![name] = checked]]
    /\ observations' =
          IF observations.type = "array" /\ Len(observations.items) > 0
          THEN [observations EXCEPT !.items[1].strategies[name] = checked]
          ELSE observations
    /\ last' = Shown("strategy")
    /\ UNCHANGED <<selectedObservation, storage, now, phase>>

handleStrategyChange(name, checked) ==
    /\ phase = "running"
    /\ formState' = [formState EXCEPT !.strategies = [@ EXCEPT ![name] = checked]]
    /\ last' = Shown("strategy")
    /\ UNCHANGED <<observations, selectedObservation, storage, now, phase>>

\* setObservations(prev => [...prev, newObservation])
appendLast(newObservation, prev) ==
    IF prev.type = "array" THEN [prev EXCEPT !.items = @ \o <<newObservation>>]
    ELSE [prev EXCEPT !.items = @ \o <<ObservationToJS(newObservation)>>]

\* setObservations(prev => [newObservation, ...prev])
prepend(newObservation, prev) ==
    IF prev.type = "array" THEN [prev EXCEPT !.items = <<newObservation>> \o @]
    ELSE [prev EXCEPT !.items = <<ObservationToJS(newObservation)>> \o @]

handleSave(ok) ==
    /\ phase = "running"
    /\ IF ~isSaveable(formState)
       THEN /\ last' = [Shown("save") EXCEPT
                            !.alert = "Please fill in Date/Time, Teacher Name, and Year Group."]
            /\ UNCHANGED <<observations, formState, selectedObservation, storage, now, phase>>
       ELSE IF observations.type \notin {"array", "junkarray"}
       THEN \* ...prev throws: prev is not iterable
            /\ phase' = "crashed"
            /\ last' = [Shown("save") EXCEPT !.log = {TypeError}]
            /\ UNCHANGED <<observations, formState, selectedObservation, storage, now>>
       ELSE /\ Len(observations.items) < MaxObs
            /\ LET newObservation == [formState EXCEPT !.id = toISOString(now)]
                   m == SaveEffect([observations |-> prepend(newObservation, observations),
                                    storage |-> storage, log |-> {}], ok)
               IN  /\ observations' = m.observations
                   /\ storage' = m.storage
                   /\ last' = [Shown("save") EXCEPT !.log = m.log]
            /\ formState' = getInitialFormState
            /\ UNCHANGED <<selectedObservation, now, phase>>

\* a handleEmail that resets the form once the e-mail is composed
handleEmailAndReset ==
    /\ phase = "running"
    /\ IF Len(formState.teacherName) = 0 \/ Len(formState.dateTime) = 0
       THEN /\ last' = [Shown("email") EXCEPT
                        !.alert = "Please provide a Teacher Name and Date before sending an email."]
            /\ UNCHANGED formState
       ELSE /\ last' = [Shown("email") EXCEPT !.href = emailHref(formState)]
            /\ formState' = getInitialFormState
    /\ UNCHANGED <<observations, selectedObservation, storage, now, phase>>

handleEmail ==
    /\ phase = "running"
    /\ UNCHANGED <<observations, formState, selectedObservation, storage, now, phase>>
    /\ IF Len(formState.teacherName) = 0 \/ Len(formState.dateTime) = 0
       THEN last' = [Shown("email") EXCEPT
                        !.alert = "Please provide a Teacher Name and Date before sending an email."]
       ELSE last' = [Shown("email") EXCEPT !.href = emailHref(formState)]

\* a handleExport without the test for an empty collection
handleExportNoEmptyCheck(downloadSupported, hour12) ==
    /\ phase = "running"
    /\ UNCHANGED <<observations, formState, selectedObservation, storage, now, phase>>
    /\ IF observations.type # "array"
       THEN last' = [Shown("export") EXCEPT !.log = {TypeError}]
       ELSE IF downloadSupported
       THEN last' = [Shown("export") EXCEPT
                        !.download = <<[name |-> downloadName(now),
                                        content |-> csvString(observations.items, hour12)]>>]
       ELSE last' = Shown("export")

handleExport(downloadSupported, hour12) ==
    /\ phase = "running"
    /\ UNCHANGED <<observations, formState, selectedObservation, storage, now, phase>>
    /\ IF LengthIsZero(observations)
       THEN last' = [Shown("export") EXCEPT !.alert = "No observations to export."]
       ELSE IF observations.type # "array"
       THEN \* observations.map is not a function, or a row reads a missing property
            last' = [Shown("export") EXCEPT !.log = {TypeError}]
       ELSE IF downloadSupported
       THEN last' = [Shown("export") EXCEPT
                        !.download = <<[name |-> downloadName(now),
                                        content |-> csvString(observations.items, hour12)]>>]
       ELSE last' = Shown("export")

\* the View Details button of the i-th entry of the saved list
viewDetails(i) ==
    /\ phase = "running"
    /\ observations.type = "array"
    /\ i \in 1..Len(observations.items)
    /\ selectedObservation' = <<observations.items[i]>>
    /\ last' = Shown("view")
    /\ UNCHANGED <<observations, formState, storage, now, phase>>

\* onClose of the details modal
closeDetails ==
    /\ phase = "running"
    /\ selectedObservation # <<>>
    /\ selectedObservation' = <<>>
    /\ last' = Shown("close")
    /\ UNCHANGED <<observations, formState, storage, now, phase>>

\* The page is closed or reloaded: the component's state is gone, the slot stays
Unload ==
    /\ phase # "loading"
    /\ phase' = "loading"
    /\ observations' = EmptyCollection
    /\ formState' = getInitialFormState
    /\ selectedObservation' = <<>>
    /\ last' = Shown("none")
    /\ UNCHANGED <<storage, now>>

\* a millisecond passes
Tick ==
    /\ now < MaxClock
    /\ now' = now + 1
    /\ UNCHANGED <<observations, formState, selectedObservation, storage, phase, last>>

Init ==
    /\ observations = EmptyCollection
    /\ formState = getInitialFormState
    /\ selectedObservation = <<>>
    /\ storage \in InitialSlots
    /\ now = 0
    /\ phase = "loading"
    /\ last = Shown("none")

\* the form is edited: a field named in names, a strategy flag named in keys
Edit(names, keys) ==
    \/ \E name \in names : \E value \in InputValues(name) : handleInputChange(name, value)
    \/ \E name \in keys : \E checked \in BOOLEAN : handleStrategyChange(name, checked)

(* The whole application with every failure of its environment: a reload   *)
(* at any time, strict or not, every write failing or not, the clock       *)
(* standing still or advancing.  The form's notes stay empty and one       *)
(* strategy flag is used.                                                  *)

UserAction ==
    \/ Edit({"dateTime", "teacherName", "yearGroup"}, {"dumtums"})
    \/ \E ok \in BOOLEAN : handleSave(ok)
    \/ handleEmail
    \/ \E downloadSupported \in BOOLEAN : handleExport(downloadSupported, FALSE)
    \/ \E i \in 1..MaxObs : viewDetails(i)
    \/ closeDetails

Next ==
    \/ \E strict \in BOOLEAN : \E ok1 \in BOOLEAN : \E ok2 \in BOOLEAN : \E ok3 \in BOOLEAN :
          Start(strict, ok1, ok2, ok3)
    \/ Unload
    \/ UserAction
    \/ Tick

Spec == Init /\ [][Next]_vars

(* Filling in, saving and exporting, with notes that hold a comma, a       *)
(* newline and double quotes and with two strategy flags; the storage      *)
(* works, the clock stands still.                                          *)

NextForm ==
    \/ Start(FALSE, TRUE, TRUE, TRUE)
    \/ Unload
    \/ Edit({"dateTime", "teacherName", "yearGroup", "observationNotes"},
            {"miniWhiteboards", "dumtums"})
    \/ handleSave(TRUE)
    \/ \E hour12 \in BOOLEAN : handleExport(TRUE, hour12)

SpecForm == Init /\ [][NextForm]_vars

----------------------------------------------------------------------------
(* Properties *)

RequiredFieldsPresent ==
    Len(formState.dateTime) > 0 /\ Len(formState.teacherName) > 0 /\ Len(formState.yearGroup) > 0

\* observations' is observations with one record in front
OneRecordPrepended ==
    /\ observations.type = "array"
    /\ observations'.type = "array"
    /\ Len(observations'.items) = Len(observations.items) + 1
    /\ Tail(observations'.items) = observations.items

\* C1: a save with the three required fields present turns the collection C into
\* [r] followed by C, where r has a non-empty id and every other field of r, the
\* four strategy flags included, is the form's.
C1_SavePrependsFormRecord ==
    [][\A ok \in BOOLEAN :
          (handleSave(ok) /\ RequiredFieldsPresent /\ observations.type = "array")
          => /\ OneRecordPrepended
             /\ Len(Head(observations'.items).id) > 0
             /\ Head(observations'.items).dateTime = formState.dateTime
             /\ Head(observations'.items).yearGroup = formState.yearGroup
             /\ Head(observations'.items).teacherName = formState.teacherName
             /\ Head(observations'.items).observationNotes = formState.observationNotes
             /\ \A i \in 1..Len(STRATEGY_KEYS) :
                   Head(observations'.items).strategies[STRATEGY_KEYS[i]]
                      = formState.strategies[STRATEGY_KEYS[i]]]_vars

\* a second record, with notes and strategy flags set, has just been saved
C1_Witness ==
    /\ phase = "running"
    /\ last.op = "save"
    /\ last.alert = ""
    /\ observations.type = "array"
    /\ Len(observations.items) = 2
    /\ Len(observations.items[1].observationNotes) > 0
    /\ observations.items[1].strategies.dumtums
    /\ ~observations.items[1].strategies.miniWhiteboards
    /\ observations.items[1] # observations.items[2]

\* C2: a save with dateTime, teacherName or yearGroup empty creates no record:
\* the collection, the form and the slot are as before.
C2_InvalidSaveChangesNothing ==
    [][\A ok \in BOOLEAN :
          (handleSave(ok) /\ ~RequiredFieldsPresent)
          => UNCHANGED <<observations, formState, storage>>]_vars

\* a save was refused for its empty yearGroup alone, with a record already saved
C2_Witness ==
    /\ phase = "running"
    /\ last.op = "save"
    /\ last.alert = "Please fill in Date/Time, Teacher Name, and Year Group."
    /\ Len(formState.dateTime) > 0
    /\ Len(formState.teacherName) > 0
    /\ Len(formState.yearGroup) = 0
    /\ observations.type = "array"
    /\ Len(observations.items) = 1

\* the collection the slot holds
StoredCollection == FromJS(JSONparse(storage.text).val)

\* C3: when the slot holds a collection C as the save effect wrote it, a start of
\* the application (the load and the save effect running, once or more) ends with
\* the in-memory collection equal to C.
C3_RestartKeepsCollection ==
    [][\A strict \in BOOLEAN : \A ok1 \in BOOLEAN : \A ok2 \in BOOLEAN : \A ok3 \in BOOLEAN :
          (/\ Start(strict, ok1, ok2, ok3)
           /\ storage.has
           /\ JSONparse(storage.text).ok
           /\ StoredCollection.type = "array"
           /\ storage.text = JSONstringify(StoredCollection))
          => (phase' = "running" /\ observations' = StoredCollection)]_vars

\* C4: the in-memory collection is a sequence and the application has not crashed
\* in every state, and a start with a slot that is present but does not hold a
\* sequence of observations ends with the empty collection.
C4_MalformedSlotLoadsEmpty ==
    [][/\ observations'.type = "array"
       /\ phase' # "crashed"
       /\ \A strict \in BOOLEAN : \A ok1 \in BOOLEAN : \A ok2 \in BOOLEAN : \A ok3 \in BOOLEAN :
             (/\ Start(strict, ok1, ok2, ok3)
              /\ storage.has
              /\ ~(JSONparse(storage.text).ok /\ StoredCollection.type = "array"))
             => (phase' = "running" /\ observations' = EmptyCollection)]_vars

\* C5: the ids of the saved observations are pairwise distinct.
C5_IdsDistinct ==
    observations.type = "array" =>
        \A i \in 1..Len(observations.items) : \A j \in 1..Len(observations.items) :
            i # j => observations.items[i].id # observations.items[j].id

\* C6: a user action leaves the collection as it is or puts exactly one new record
\* in front of it; the records already there keep their fields and their order.
C6_CollectionOnlyGrowsAtFront ==
    [][UserAction => (observations' = observations \/ OneRecordPrepended)]_vars

\* a strategy flag of the form was changed after a save and differs from the
\* newest saved record's
C6_Witness ==
    /\ phase = "running"
    /\ last.op = "strategy"
    /\ observations.type = "array"
    /\ Len(observations.items) = 2
    /\ formState.strategies.dumtums # observations.items[1].strategies.dumtums
    /\ observations.items[1].strategies.dumtums # observations.items[2].strategies.dumtums

\* C7: a save whose write to the slot throws still prepends its record in memory:
\* the failure is caught and logged, the slot is as before, the application runs on.
C7_FailedWriteKeepsCollection ==
    [][(handleSave(FALSE) /\ RequiredFieldsPresent /\ observations.type = "array")
       => /\ OneRecordPrepended
          /\ Head(observations'.items) = [formState EXCEPT !.id = Head(observations'.items).id]
          /\ storage' = storage
          /\ SaveFailed \in last'.log
          /\ phase' = "running"]_vars

\* two records were saved though the slot never took them, and an export has since
\* worked on both
C7_Witness ==
    /\ phase = "running"
    /\ last.op = "export"
    /\ last.download # <<>>
    /\ observations.type = "array"
    /\ Len(observations.items) = 2
    /\ storage = Absent

RECURSIVE NewlinesIn(_)
\* the newline characters in the text fields of the records items
NewlinesIn(items) ==
    IF Len(items) = 0 THEN 0
    ELSE Count(Head(items).yearGroup, NL) + Count(Head(items).teacherName, NL)
         + Count(Head(items).observationNotes, NL) + NewlinesIn(Tail(items))

\* C8 as stated: the exported CSV text holds exactly length(C) newline characters.
C8_CsvHasOneLinePerRecord ==
    (last.op = "export" /\ last.download # <<>>)
    => Count(last.download[1].content, NL) = Len(observations.items)

\* C8 as amended: the exported CSV text holds length(C) newline characters and one
\* more for every newline character in a text field of a record (the quoted notes
\* keep their newlines).
C8_CsvNewlines ==
    (last.op = "export" /\ last.download # <<>>)
    => Count(last.download[1].content, NL)
          = Len(observations.items) + NewlinesIn(observations.items)

\* two records were exported, one of them with a newline in its notes
C8_Witness ==
    /\ last.op = "export"
    /\ last.download # <<>>
    /\ Len(observations.items) = 2
    /\ NewlinesIn(observations.items) = 1
    /\ Count(last.download[1].content, NL) = 3

\* C9: the export and the e-mail action leave the collection, the form and the
\* slot as they were, whether they produce their artifact or refuse: every step
\* leaves the three unchanged or is neither an e-mail nor an export step.
C9_ExportAndEmailChangeNothing ==
    [][\/ UNCHANGED <<observations, formState, storage>>
       \/ ~(handleEmail \/ \E downloadSupported \in BOOLEAN : \E hour12 \in BOOLEAN :
                               handleExport(downloadSupported, hour12))]_vars

\* an e-mail was composed from a filled form while a record was saved
C9_Witness ==
    /\ phase = "running"
    /\ last.op = "email"
    /\ last.href # <<>>
    /\ formState.strategies.dumtums
    /\ observations.type = "array"
    /\ Len(observations.items) = 1

\* C10: an export of the empty collection produces no file and alerts the user; a
\* file is produced only from a collection of at least one record: every step
\* meets both or is not an export step.
C10_EmptyExportFails ==
    [][\A downloadSupported \in BOOLEAN : \A hour12 \in BOOLEAN :
          \/ /\ observations = EmptyCollection
                => (last'.download = <<>> /\ last'.alert = "No observations to export.")
             /\ last'.download # <<>>
                => (observations.type = "array" /\ Len(observations.items) >= 1)
          \/ ~handleExport(downloadSupported, hour12)]_vars

\* an export of the empty collection was refused
C10_Witness ==
    /\ phase = "running"
    /\ last.op = "export"
    /\ last.alert = "No observations to export."
    /\ last.download = <<>>
    /\ observations = EmptyCollection

====
